---- MODULE Spec2Model ----
(***************************************************************************)
(* Model of src/src/index.ts: a sequential TCP connect-scanner.            *)
(*   main -> (resolveDomain) -> asserts -> scanPorts -> scanPort per port  *)
(* Strings are modelled as sequences of one-character strings so that the  *)
(* two regular expressions and the Number() conversion are computed.       *)
(***************************************************************************)
EXTENDS Integers, Sequences, FiniteSets, TLC

\* ---------------------------------------------------------------- bounds
\* largest number of ports in a generated well-formed port range
MaxSpan == 3

\* ------------------------------------------------------- program constants
\* largest port net.Socket.connect accepts
MAX_PORT == 65535

\* the value null of resolve(null); ports are naturals
Null == -1

Digits == <<"0", "1", "2", "3", "4", "5", "6", "7", "8", "9">>

IsDigit(c) == \E i \in 1..10 : Digits[i] = c

DigitVal(c) == (CHOOSE i \in 1..10 : Digits[i] = c) - 1

AllDigits(s) == \A i \in 1..Len(s) : IsDigit(s[i])

\* String(n) for a natural number: decimal digits, no leading zero
RECURSIVE ToStr(_)
ToStr(n) == IF n < 10 THEN <<Digits[n + 1]>>
            ELSE Append(ToStr(n \div 10), Digits[(n % 10) + 1])

\* Number(s) for a string of decimal digits
RECURSIVE ToNumber(_)
ToNumber(s) == IF Len(s) = 0 THEN 0
               ELSE 10 * ToNumber(SubSeq(s, 1, Len(s) - 1)) + DigitVal(s[Len(s)])

\* s.split(sep): the pieces of s between the occurrences of sep
RECURSIVE Split(_, _)
Split(s, sep) ==
  IF \A i \in 1..Len(s) : s[i] # sep THEN <<s>>
  ELSE LET k == CHOOSE i \in 1..Len(s) :
                   s[i] = sep /\ \A j \in 1..(i - 1) : s[j] # sep
       IN <<SubSeq(s, 1, k - 1)>> \o Split(SubSeq(s, k + 1, Len(s)), sep)

\* one group of REGEXP_IP: 25[0-5] | 2[0-4][0-9] | [01]?[0-9][0-9]?
OctetMatch_Loose(g) ==
  \/ Len(g) = 3 /\ g[1] = "2" /\ IsDigit(g[2]) /\ IsDigit(g[3])
  \/ Len(g) = 3 /\ g[1] \in {"0", "1"} /\ IsDigit(g[2]) /\ IsDigit(g[3])
  \/ Len(g) = 2 /\ IsDigit(g[1]) /\ IsDigit(g[2])
  \/ Len(g) = 1 /\ IsDigit(g[1])

OctetMatch(g) ==
  \/ Len(g) = 3 /\ g[1] = "2" /\ g[2] = "5" /\ g[3] \in {"0", "1", "2", "3", "4", "5"}
  \/ Len(g) = 3 /\ g[1] = "2" /\ g[2] \in {"0", "1", "2", "3", "4"} /\ IsDigit(g[3])
  \/ Len(g) = 3 /\ g[1] \in {"0", "1"} /\ IsDigit(g[2]) /\ IsDigit(g[3])
  \/ Len(g) = 2 /\ IsDigit(g[1]) /\ IsDigit(g[2])
  \/ Len(g) = 1 /\ IsDigit(g[1])

\* REGEXP_IP.test(s): four groups separated by single dots
REGEXP_IP(s) ==
  LET gs == Split(s, ".")
  IN Len(gs) = 4 /\ \A i \in 1..4 : OctetMatch(gs[i])

isIpCheck(h) == REGEXP_IP(h)

\* REGEXP_PORT_RANGE.test(s): ^(\d+)-(\d+)$
REGEXP_PORT_RANGE(s) ==
  LET ps == Split(s, "-")
  IN Len(ps) = 2 /\ \A i \in 1..2 : Len(ps[i]) >= 1 /\ AllDigits(ps[i])

isPortRangeCheck(r) == REGEXP_PORT_RANGE(r)

\* portrange.split('-').map(Number), applied after the assertion passed
ParsePorts(r) == LET ps == Split(r, "-") IN <<ToNumber(ps[1]), ToNumber(ps[2])>>

\* ------------------------------------------------------------------ inputs
\* the <ip> argument: IPv4 literals, malformed literals and a host name
IpInputs ==
  { <<"1", ".", "2", ".", "3", ".", "4">>,
    <<"2", "5", "6", ".", "1", ".", "1", ".", "1">>,
    <<"1", ".", "2", ".", "3">>,
    <<"a", ".", "i", "o">> }

\* what dns.lookup may answer: an IPv4 address or an IPv6 address
DnsAnswers == { <<"9", ".", "9", ".", "9", ".", "9">>, <<":", ":", "1">> }

BasePorts == {0, 1, MAX_PORT - 1}

\* every port a probe can be started on
ProbePorts == UNION {a..(a + MaxSpan) : a \in BasePorts}

\* the listener state of the target: the ports that accept connections
ListenerStates == { {}, {q \in ProbePorts : q % 2 = 0}, ProbePorts }

\* <start>-<end> strings of up to MaxSpan ports, one-step reversed ranges and
\* ports above 65535 included
RangeInputs ==
  { ToStr(a) \o <<"-">> \o ToStr(a + d) :
      <<a, d>> \in { <<x, y>> \in BasePorts \X ((0 - 1)..(MaxSpan - 1)) : x + y >= 0 } }

\* strings the range expression rejects, one with leading zeros and one with
\* start far above end that it accepts
OtherRanges ==
  { <<"5", "-", "1">>, <<"a", "-", "1">>, <<"1", "-">>, <<"1", "2">>, <<"1", "-", "2", "-", "3">>,
    <<"0", "7", "-", "0", "8">> }

PortRangeInputs == RangeInputs \cup OtherRanges

\* ------------------------------------------------------------------- state
VARIABLES
  listeners,    \* environment: the ports of the target that accept connections
  ip,           \* argv.ip
  portrange,    \* argv.portrange
  pc,           \* position of main / scanPorts
  host,         \* main's host
  err,          \* the exception main's promise was rejected with
  startPort,    \* scanPorts' arguments
  endPort,
  port,         \* loop variable of scanPorts
  openPorts,    \* the accumulating list of scanPorts
  progressBar,  \* [curr, total] of the ProgressBar
  probe,        \* port -> the socket and the promise of scanPort(host, port),
                \* with the events of the socket and the number of times
                \* the promise was settled
  probes,       \* history: ports scanPort was called with, in call order
  ticks,        \* history: one record per progressBar.tick()
  dnsLookups,   \* history: number of dns.lookup calls
  stdout,       \* console.log records
  stderr,       \* console.error records
  exitCode,     \* argument of process.exit, Null before the exit
  exitCalls     \* number of process.exit calls

vars == <<listeners, ip, portrange, pc, host, err, startPort, endPort, port, openPorts,
          progressBar, probe, probes, ticks, dnsLookups, stdout, stderr,
          exitCode, exitCalls>>

\* number of probes whose promise is no longer pending
Settled == Cardinality({p \in DOMAIN probe : probe[p].state # "pending"})

Pending == {p \in DOMAIN probe : probe[p].state = "pending"}

\* state after the yargs handler has stored the arguments, before main()
Init ==
  /\ listeners \in ListenerStates
  /\ ip \in IpInputs
  /\ portrange \in PortRangeInputs
  /\ pc = "main"
  /\ host = <<>>
  /\ err = "none"
  /\ startPort = 0
  /\ endPort = 0
  /\ port = 0
  /\ openPorts = <<>>
  /\ progressBar = [curr |-> 0, total |-> 0]
  /\ probe = <<>>
  /\ probes = <<>>
  /\ ticks = <<>>
  /\ dnsLookups = 0
  /\ stdout = <<>>
  /\ stderr = <<>>
  /\ exitCode = Null
  /\ exitCalls = 0

\* main, up to the first await or the assertions
MainStart_AlwaysResolve ==
  /\ pc = "main"
  /\ host' = ip
  /\ pc' = "dns"
  /\ dnsLookups' = dnsLookups + 1
  /\ UNCHANGED <<listeners, ip, portrange, err, startPort, endPort, port, openPorts,
                 progressBar, probe, probes, ticks, stdout, stderr, exitCode,
                 exitCalls>>

MainStart ==
  /\ pc = "main"
  /\ host' = ip
  /\ IF ~isIpCheck(ip)
       THEN pc' = "dns" /\ dnsLookups' = dnsLookups + 1
       ELSE pc' = "validate" /\ UNCHANGED dnsLookups
  /\ UNCHANGED <<listeners, ip, portrange, err, startPort, endPort, port, openPorts,
                 progressBar, probe, probes, ticks, stdout, stderr, exitCode,
                 exitCalls>>

\* resolveDomain: dns.lookup answers, res.address is returned to main
ResolveDomainOk ==
  /\ pc = "dns"
  /\ \E a \in DnsAnswers : host' = a
  /\ pc' = "validate"
  /\ UNCHANGED <<listeners, ip, portrange, err, startPort, endPort, port, openPorts,
                 progressBar, probe, probes, ticks, dnsLookups, stdout, stderr,
                 exitCode, exitCalls>>

\* resolveDomain: dns.lookup fails, assert(false) throws out of main
ResolveDomainFail ==
  /\ pc = "dns"
  /\ err' = "ResolveFailed"
  /\ pc' = "rejected"
  /\ UNCHANGED <<listeners, ip, portrange, host, startPort, endPort, port, openPorts,
                 progressBar, probe, probes, ticks, dnsLookups, stdout, stderr,
                 exitCode, exitCalls>>

\* the two assertions of main, then split('-').map(Number) and the call of scanPorts
MainValidate_RangeOrderAssert ==
  /\ pc = "validate"
  /\ IF ~isIpCheck(host)
       THEN err' = "InvalidIp" /\ pc' = "rejected" /\ UNCHANGED <<startPort, endPort>>
       ELSE IF ~isPortRangeCheck(portrange) \/ ParsePorts(portrange)[1] > ParsePorts(portrange)[2]
       THEN err' = "InvalidPortRange" /\ pc' = "rejected" /\ UNCHANGED <<startPort, endPort>>
       ELSE /\ startPort' = ParsePorts(portrange)[1]
            /\ endPort' = ParsePorts(portrange)[2]
            /\ pc' = "scanPorts"
            /\ UNCHANGED err
  /\ UNCHANGED <<listeners, ip, portrange, host, port, openPorts, progressBar, probe,
                 probes, ticks, dnsLookups, stdout, stderr, exitCode, exitCalls>>

MainValidate_NoIpAssert ==
  /\ pc = "validate"
  /\ IF ~isPortRangeCheck(portrange)
       THEN err' = "InvalidPortRange" /\ pc' = "rejected" /\ UNCHANGED <<startPort, endPort>>
       ELSE /\ startPort' = ParsePorts(portrange)[1]
            /\ endPort' = ParsePorts(portrange)[2]
            /\ pc' = "scanPorts"
            /\ UNCHANGED err
  /\ UNCHANGED <<listeners, ip, portrange, host, port, openPorts, progressBar, probe,
                 probes, ticks, dnsLookups, stdout, stderr, exitCode, exitCalls>>

MainValidate ==
  /\ pc = "validate"
  /\ IF ~isIpCheck(host)
       THEN err' = "InvalidIp" /\ pc' = "rejected" /\ UNCHANGED <<startPort, endPort>>
       ELSE IF ~isPortRangeCheck(portrange)
       THEN err' = "InvalidPortRange" /\ pc' = "rejected" /\ UNCHANGED <<startPort, endPort>>
       ELSE /\ startPort' = ParsePorts(portrange)[1]
            /\ endPort' = ParsePorts(portrange)[2]
            /\ pc' = "scanPorts"
            /\ UNCHANGED err
  /\ UNCHANGED <<listeners, ip, portrange, host, port, openPorts, progressBar, probe,
                 probes, ticks, dnsLookups, stdout, stderr, exitCode, exitCalls>>

\* new ProgressBar(..., { total: endPort - startPort })
NewProgressBar(s, e) == [curr |-> 0, total |-> e - s]

\* scanPorts, from its entry to the loop head
ScanPortsBegin ==
  /\ pc = "scanPorts"
  /\ stdout' = Append(stdout, [kind |-> "header", host |-> host,
                                from |-> startPort, to |-> endPort])
  /\ progressBar' = NewProgressBar(startPort, endPort)
  /\ openPorts' = <<>>
  /\ port' = startPort
  /\ pc' = "loop"
  /\ UNCHANGED <<listeners, ip, portrange, host, err, startPort, endPort, probe, probes,
                 ticks, dnsLookups, stderr, exitCode, exitCalls>>

\* progressBar.tick()
Tick(bar) == [bar EXCEPT !.curr = bar.curr + 1]

\* the loop condition port <= endPort
LoopCond_Exclusive(p, e) == p < e

LoopCond(p, e) == p <= e

\* socket.connect(port, host) throws on a port it does not accept
ConnectThrows(p) == p > MAX_PORT

\* await of a promise: a pending promise suspends scanPorts, a fulfilled one
\* schedules the continuation, a rejected one is rethrown out of scanPorts and main
Await_NoSuspend(pr) ==
  IF pr.state = "rejected" THEN "rejected" ELSE "resume"

Await(pr) ==
  IF pr.state = "pending" THEN "await"
  ELSE IF pr.state = "fulfilled" THEN "resume" ELSE "rejected"

\* the promise and the socket scanPort returns once socket.connect was called
NewProbe ==
  [socket |-> "connecting", state |-> "pending", value |-> Null, events |-> <<>>,
   settles |-> 0]

\* one loop iteration up to the await: tick, then scanPort creates the socket,
\* registers the handlers and starts the connection
ScanPortsProbe ==
  /\ pc = "loop"
  /\ LoopCond(port, endPort)
  /\ ~ConnectThrows(port)
  /\ progressBar' = Tick(progressBar)
  /\ ticks' = Append(ticks, [curr |-> progressBar'.curr, total |-> progressBar'.total,
                              settled |-> Settled])
  /\ probes' = Append(probes, port)
  /\ probe' = probe @@ (port :> NewProbe)
  /\ pc' = Await(NewProbe)
  /\ UNCHANGED <<listeners, ip, portrange, host, err, startPort, endPort, port, openPorts,
                 dnsLookups, stdout, stderr, exitCode, exitCalls>>

\* one loop iteration where socket.connect throws inside the promise executor:
\* the promise is rejected and the await rethrows out of scanPorts and main
ScanPortsThrow ==
  /\ pc = "loop"
  /\ LoopCond(port, endPort)
  /\ ConnectThrows(port)
  /\ progressBar' = Tick(progressBar)
  /\ ticks' = Append(ticks, [curr |-> progressBar'.curr, total |-> progressBar'.total,
                              settled |-> Settled])
  /\ probes' = Append(probes, port)
  /\ probe' = probe @@ (port :> [socket |-> "created", state |-> "rejected",
                                  value |-> Null, events |-> <<>>, settles |-> 1])
  /\ err' = "ERR_SOCKET_BAD_PORT"
  /\ pc' = "rejected"
  /\ UNCHANGED <<listeners, ip, portrange, host, startPort, endPort, port, openPorts,
                 dnsLookups, stdout, stderr, exitCode, exitCalls>>

\* resolve(v) of a promise: only the first call settles it
Resolve_LastWins(pr, v) ==
  [pr EXCEPT !.state = "fulfilled", !.value = v, !.settles = pr.settles + 1]

Resolve(pr, v) ==
  IF pr.state = "pending"
  THEN [pr EXCEPT !.state = "fulfilled", !.value = v, !.settles = pr.settles + 1]
  ELSE pr

\* socket.on('connect'): resolve(port); socket.destroy()
ConnectHandler(pr, p) ==
  [Resolve(pr, p) EXCEPT !.socket = "destroyed", !.events = Append(pr.events, "connect")]

\* socket.on('timeout'): socket.destroy(); resolve(null)
TimeoutHandler_NoDestroy(pr, p) ==
  [Resolve(pr, Null) EXCEPT !.events = Append(pr.events, "timeout")]

TimeoutHandler_NoResolve(pr, p) ==
  [pr EXCEPT !.socket = "destroyed", !.events = Append(pr.events, "timeout")]

TimeoutHandler(pr, p) ==
  [Resolve(pr, Null) EXCEPT !.socket = "destroyed", !.events = Append(pr.events, "timeout")]

\* socket.on('error'): resolve(null); the handler does not destroy the socket
ErrorHandler_ResolvesPort(pr, p) ==
  [Resolve(pr, p) EXCEPT !.socket = "errored", !.events = Append(pr.events, "error")]

ErrorHandler_Rejects(pr, p) ==
  [pr EXCEPT !.state = IF pr.state = "pending" THEN "rejected" ELSE pr.state,
             !.settles = IF pr.state = "pending" THEN 1 ELSE pr.settles,
             !.socket = "errored", !.events = Append(pr.events, "error")]

ErrorHandler(pr, p) ==
  [Resolve(pr, Null) EXCEPT !.socket = "errored", !.events = Append(pr.events, "error")]

\* a handler ran while main is suspended: if it settled the awaited promise,
\* the continuation of scanPorts is scheduled
Dispatch(p, pr) ==
  /\ probe' = [probe EXCEPT ![p] = pr]
  /\ pc' = IF p = port /\ probe[p].state = "pending" THEN Await(pr) ELSE pc
  /\ err' = IF pc' = "rejected" THEN "ProbeRejected" ELSE err
  /\ UNCHANGED <<listeners, ip, portrange, host, startPort, endPort, port, openPorts,
                 progressBar, probes, ticks, dnsLookups, stdout, stderr,
                 exitCode, exitCalls>>

\* the connection of a connecting socket is established
OnConnect ==
  /\ pc = "await"
  /\ \E p \in DOMAIN probe :
       /\ probe[p].socket = "connecting"
       /\ p \in listeners
       /\ Dispatch(p, ConnectHandler(probe[p], p))

\* the idle timer of a socket that was not destroyed fires; the 'error'
\* handler clears no timer, so a timer firing after 'error' is not excluded
OnTimeout ==
  /\ pc = "await"
  /\ \E p \in DOMAIN probe :
       /\ probe[p].socket \in {"connecting", "errored"}
       /\ Dispatch(p, TimeoutHandler(probe[p], p))

\* the connection attempt of a connecting socket fails
OnError ==
  /\ pc = "await"
  /\ \E p \in DOMAIN probe :
       /\ probe[p].socket = "connecting"
       /\ Dispatch(p, ErrorHandler(probe[p], p))

\* the test  portStatus !== null && portStatus
IsOpenStatus_Always(portStatus) == TRUE

IsOpenStatus(portStatus) == portStatus # Null /\ portStatus # 0

\* the loop body after the await: record the port, then port++
ScanPortsResume ==
  /\ pc = "resume"
  /\ LET portStatus == probe[port].value
     IN openPorts' = IF IsOpenStatus(portStatus) THEN Append(openPorts, port)
                     ELSE openPorts
  /\ port' = port + 1
  /\ pc' = "loop"
  /\ UNCHANGED <<listeners, ip, portrange, host, err, startPort, endPort, progressBar,
                 probe, probes, ticks, dnsLookups, stdout, stderr, exitCode,
                 exitCalls>>

\* the loop is left: the two final console.log lines, scanPorts and main return
ScanPortsReport ==
  /\ pc = "loop"
  /\ ~LoopCond(port, endPort)
  /\ stdout' = Append(stdout, [kind |-> "report", list |-> openPorts,
                                count |-> Len(openPorts)])
  /\ pc' = "resolved"
  /\ UNCHANGED <<listeners, ip, portrange, host, err, startPort, endPort, port, openPorts,
                 progressBar, probe, probes, ticks, dnsLookups, stderr,
                 exitCode, exitCalls>>

\* the exit code of the .then callback
ThenCode == 0

\* the exit code of the .catch callback
CatchCode_Zero == ThenCode

CatchCode == 1

\* main().then(() => process.exit(0))
ThenExit ==
  /\ pc = "resolved"
  /\ exitCode' = ThenCode
  /\ exitCalls' = exitCalls + 1
  /\ pc' = "exited"
  /\ UNCHANGED <<listeners, ip, portrange, host, err, startPort, endPort, port, openPorts,
                 progressBar, probe, probes, ticks, dnsLookups, stdout, stderr>>

\* main().catch((err) => { console.error(err); process.exit(1) })
CatchExit ==
  /\ pc = "rejected"
  /\ stderr' = Append(stderr, err)
  /\ exitCode' = CatchCode
  /\ exitCalls' = exitCalls + 1
  /\ pc' = "exited"
  /\ UNCHANGED <<listeners, ip, portrange, host, err, startPort, endPort, port, openPorts,
                 progressBar, probe, probes, ticks, dnsLookups, stdout>>

Next ==
  \/ MainStart
  \/ ResolveDomainOk
  \/ ResolveDomainFail
  \/ MainValidate
  \/ ScanPortsBegin
  \/ ScanPortsProbe
  \/ ScanPortsThrow
  \/ OnConnect
  \/ OnTimeout
  \/ OnError
  \/ ScanPortsResume
  \/ ScanPortsReport
  \/ ThenExit
  \/ CatchExit

Spec == Init /\ [][Next]_vars

\* the event loop runs every ready continuation and callback, dns.lookup
\* answers or fails, and the 2000 ms timer of a socket that is neither
\* connected nor destroyed fires
FairSpec ==
  /\ Spec
  /\ WF_vars(MainStart)
  /\ WF_vars(ResolveDomainOk \/ ResolveDomainFail)
  /\ WF_vars(MainValidate)
  /\ WF_vars(ScanPortsBegin)
  /\ WF_vars(ScanPortsProbe)
  /\ WF_vars(ScanPortsThrow)
  /\ WF_vars(OnTimeout)
  /\ WF_vars(ScanPortsResume)
  /\ WF_vars(ScanPortsReport)
  /\ WF_vars(ThenExit)
  /\ WF_vars(CatchExit)

TypeOK ==
  /\ pc \in {"main", "dns", "validate", "scanPorts", "loop", "await", "resume",
              "resolved", "rejected", "exited"}
  /\ exitCode \in {Null, 0, 1}
  /\ \A p \in DOMAIN probe :
       /\ probe[p].socket \in {"created", "connecting", "errored", "destroyed"}
       /\ probe[p].state \in {"pending", "fulfilled", "rejected"}

\* ------------------------------------------------------------------ claims
\* the final report of scanPorts has been written
ReportEmitted == \E i \in 1..Len(stdout) : stdout[i].kind = "report"

Report == stdout[CHOOSE i \in 1..Len(stdout) : stdout[i].kind = "report"]

\* C1: probes are started in strictly ascending port order, at most one probe
\* is outstanding, and the probe after port p is started only when the probe
\* of p has settled.
C1_SequentialAscending ==
  /\ \A i \in 2..Len(probes) : probes[i] = probes[i - 1] + 1
  /\ Cardinality(Pending) <= 1
  /\ \A i \in 1..(Len(probes) - 1) : probe[probes[i]].state # "pending"

C1_Witness ==
  /\ Len(probes) >= 2
  /\ probe[probes[Len(probes)]].state = "pending"

\* C2: for startPort <= endPort a completed scanPorts run has probed every
\* port of [startPort, endPort] exactly once, in particular exactly one port
\* when startPort = endPort, and no port outside the range.
C2_RangeCovered ==
  (ReportEmitted /\ startPort <= endPort) =>
    /\ Len(probes) = endPort - startPort + 1
    /\ \A q \in startPort..endPort :
         Cardinality({i \in 1..Len(probes) : probes[i] = q}) = 1
    /\ \A i \in 1..Len(probes) : probes[i] \in startPort..endPort

C2_Witness ==
  /\ ReportEmitted
  /\ startPort < endPort
  /\ Len(probes) = endPort - startPort + 1

\* the first socket event of the probe of port p, "none" while there is none
FirstEvent(p) == IF Len(probe[p].events) = 0 THEN "none" ELSE probe[p].events[1]

\* the probe of port p was classified Open: its first event is 'connect'
ClassifiedOpen(p) == p \in DOMAIN probe /\ FirstEvent(p) = "connect"

\* C3: when scanPorts completes, the reported list is exactly the set of ports
\* of [startPort, endPort] whose probe was classified Open (port 0 included),
\* strictly ascending without duplicates, and the count is its length.
C3_ReportIsOpenSet ==
  ReportEmitted =>
    /\ {Report.list[i] : i \in 1..Len(Report.list)}
         = {q \in startPort..endPort : ClassifiedOpen(q)}
    /\ \A i \in 2..Len(Report.list) : Report.list[i] > Report.list[i - 1]
    /\ Report.count = Len(Report.list)

\* C4: scanPort yields Open(port) exactly when 'connect' is the first socket
\* event, and null when 'timeout' or 'error' is the first socket event.
C4_FirstEventClassifies ==
  \A q \in DOMAIN probe :
    FirstEvent(q) # "none" =>
      /\ probe[q].state = "fulfilled"
      /\ (probe[q].value = q) <=> (FirstEvent(q) = "connect")
      /\ FirstEvent(q) \in {"timeout", "error"} => probe[q].value = Null

C4_Witness ==
  \E q, r \in DOMAIN probe :
    /\ FirstEvent(q) = "connect"
    /\ FirstEvent(r) = "error"
    /\ probe[r].events = <<"error", "timeout">>

\* C5: every scanPort call eventually settles: a pending probe is eventually
\* resolved (by the timeout when neither 'connect' nor 'error' occurs), and
\* no socket event ever rejects the promise.
C5_ProbeSettles ==
  /\ \A q \in ProbePorts :
       (q \in DOMAIN probe /\ probe[q].state = "pending")
         ~> (q \in DOMAIN probe /\ probe[q].state = "fulfilled")
  /\ [](\A q \in DOMAIN probe :
          probe[q].state = "rejected" => (probe[q].events = <<>> /\ ConnectThrows(q)))

C5_Witness ==
  \E q \in DOMAIN probe :
    probe[q].events = <<"timeout">> /\ probe[q].state = "fulfilled"

\* the probe of port q ended in a connection error or a timeout
ProbeFailed(q) == q \in DOMAIN probe /\ FirstEvent(q) \in {"error", "timeout"}

\* C6: a probe that ends in an error or a timeout never aborts the scan: it
\* is seen as a NotOpen result, the scan is aborted by nothing but a throw of
\* socket.connect, and a run whose probes all fail completes with an empty
\* report and exit code 0.
C6_FailuresAbsorbed ==
  /\ \A q \in DOMAIN probe :
       ProbeFailed(q) => (probe[q].state = "fulfilled" /\ probe[q].value = Null)
  /\ (pc \in {"rejected", "exited"} /\ Len(probes) > 0 /\ ~ReportEmitted) =>
       (~ProbeFailed(port) /\ ConnectThrows(port))
  /\ (pc = "exited" /\ Len(probes) > 0 /\ \A q \in DOMAIN probe : ProbeFailed(q)) =>
       /\ ReportEmitted
       /\ Report.list = <<>>
       /\ Report.count = 0
       /\ exitCode = 0

C6_Witness ==
  /\ pc = "exited"
  /\ Len(probes) >= 2
  /\ \A q \in DOMAIN probe : ProbeFailed(q)
  /\ \E q \in DOMAIN probe : FirstEvent(q) = "error"
  /\ \E q \in DOMAIN probe : FirstEvent(q) = "timeout"

\* the run was aborted by a validation or resolution error
ValidationAbort ==
  /\ pc \in {"rejected", "exited"}
  /\ ~isIpCheck(host) \/ ~isPortRangeCheck(portrange)

\* C7 as stated: when the ip argument is neither a valid IPv4 literal nor
\* resolvable, or the portrange does not match, no network operation (neither
\* a DNS lookup nor a port probe) has been performed when the run is aborted,
\* and the run ends with a nonzero exit.
C7_NoNetworkBeforeAbort ==
  ValidationAbort =>
    /\ dnsLookups = 0
    /\ probes = <<>>
    /\ pc = "exited" => exitCode # 0

\* C7 amended: when the ip argument is neither a valid IPv4 literal nor
\* resolvable to one, or the portrange does not match, no port probe has been
\* started when the run is aborted, a DNS lookup has been performed only if
\* the ip argument is not an IPv4 literal, and the run ends with exit code 1.
C7_NoProbeBeforeAbort ==
  /\ (~isIpCheck(host) \/ ~isPortRangeCheck(portrange)) =>
       pc \in {"main", "dns", "validate", "rejected", "exited"}
  /\ ValidationAbort =>
       /\ probes = <<>>
       /\ ticks = <<>>
       /\ dnsLookups = (IF isIpCheck(ip) THEN 0 ELSE 1)
       /\ err \in {"ResolveFailed", "InvalidIp", "InvalidPortRange"}
       /\ pc = "exited" => exitCode = 1

C7_Witness ==
  /\ pc = "exited"
  /\ ~isIpCheck(ip)
  /\ isIpCheck(host)
  /\ ~isPortRangeCheck(portrange)
  /\ dnsLookups = 1

\* C8: the process exits once, with code 0 exactly when the final report was
\* emitted and with code 1 on every failure path, the failure reason having
\* been written to the error stream before the exit.
C8_ExitCode ==
  /\ exitCalls <= 1
  /\ pc # "exited" => (exitCalls = 0 /\ exitCode = Null)
  /\ pc = "exited" =>
       /\ exitCalls = 1
       /\ exitCode \in {0, 1}
       /\ exitCode = 0 <=> ReportEmitted
       /\ exitCode = 0 => (err = "none" /\ stderr = <<>>)
       /\ exitCode = 1 => (err # "none" /\ stderr = <<err>>)

C8_Witness ==
  /\ pc = "exited"
  /\ exitCode = 1
  /\ err = "ERR_SOCKET_BAD_PORT"
  /\ Len(openPorts) > 0

\* scanPorts has been invoked by main
ScanPortsInvoked == pc \in {"scanPorts", "loop", "await", "resume"} \/ Len(stdout) > 0

\* C9: whenever main invokes scanPorts the arguments form a valid Target:
\* host satisfies isIpCheck and 0 <= startPort <= endPort <= 65535, and no
\* port outside [0, 65535] reaches scanPort.
C9_ValidTarget ==
  /\ ScanPortsInvoked =>
       (isIpCheck(host) /\ 0 <= startPort /\ startPort <= endPort /\ endPort <= MAX_PORT)
  /\ \A i \in 1..Len(probes) : probes[i] \in 0..MAX_PORT

\* C10: one progress tick per probe, each emitted after the outcome of that
\* probe is known, showing k / totalPorts after k probes with
\* totalPorts = endPort - startPort + 1, never more than 100%.
C10_ProgressTicks ==
  /\ Len(ticks) = Len(probes)
  /\ \A k \in 1..Len(ticks) :
       /\ ticks[k].settled >= k
       /\ ticks[k].curr = k
       /\ ticks[k].total = endPort - startPort + 1
       /\ ticks[k].curr <= ticks[k].total

\* C11: resolveDomain is invoked at most once per run and only when the ip
\* argument fails isIpCheck, with a single lookup; when the lookup fails the
\* run is aborted with a nonzero exit and no port probe has been started.
C11_ResolveOnce ==
  /\ dnsLookups <= 1
  /\ dnsLookups = 1 => ~isIpCheck(ip)
  /\ pc = "dns" => dnsLookups = 1
  /\ err = "ResolveFailed" =>
       /\ pc \in {"rejected", "exited"}
       /\ dnsLookups = 1
       /\ probes = <<>>
       /\ pc = "exited" => exitCode = 1

C11_Witness ==
  /\ err = "ResolveFailed"
  /\ pc = "exited"
  /\ isPortRangeCheck(portrange)

\* a socket holds a connection or a connection attempt from socket.connect
\* until a handler destroys it or the runtime closes it, which it does when
\* it emits 'error' ('close' follows 'error' without a call of destroy)
SocketLive(sock) == sock = "connecting"

LiveSockets == {q \in DOMAIN probe : SocketLive(probe[q].socket)}

ReportedPorts == {Report.list[i] : i \in 1..Len(Report.list)}

\* C13 as stated: the open-port set of a completed run is a function of the
\* target and the listener state only, not of event timing: it is the set of
\* ports of the range that accept connections, whatever the events were.
C13_ReportFromListeners ==
  ReportEmitted => ReportedPorts = {q \in startPort..endPort : q \in listeners}

\* C13 amended: the open-port set of a completed run is a function of the
\* target and of the first socket event of every probe: only ports that accept
\* connections and whose probe saw 'connect' first are reported, and every
\* port above 0 whose probe saw 'connect' first is reported.
C13_ReportFromFirstEvents ==
  ReportEmitted =>
    /\ ReportedPorts \subseteq {q \in startPort..endPort : ClassifiedOpen(q) /\ q \in listeners}
    /\ {q \in startPort..endPort : ClassifiedOpen(q) /\ q > 0} \subseteq ReportedPorts

C13_Witness ==
  /\ ReportEmitted
  /\ \E q, r \in (startPort..endPort) \cap listeners :
       /\ FirstEvent(q) = "timeout"
       /\ FirstEvent(r) = "connect"
       /\ r \in ReportedPorts
       /\ q \notin ReportedPorts

\* ------------------------------------------------- isIpCheck on its own
\* largest number of leading zeros put before a group
MaxPad == 2

GroupValues == {0, 7, 10, 99, 100, 199, 200, 249, 250, 255, 256, 259, 260, 300, 999}

\* k zeros before the digits s
RECURSIVE Pad(_, _)
Pad(s, k) == IF k = 0 THEN s ELSE Pad(<<"0">> \o s, k - 1)

Groups == {Pad(ToStr(v), k) : <<v, k>> \in GroupValues \X (0..MaxPad)}

Fillers == {<<"1">>, <<"2", "5", "5">>}

\* the groups gs joined by dots
RECURSIVE Join(_)
Join(gs) == IF Len(gs) = 1 THEN gs[1] ELSE gs[1] \o <<".">> \o Join(Tail(gs))

\* strings of three, four and five groups; in the four-group strings one
\* group at any position ranges over Groups
IpCheckInputs ==
  UNION { { Join(<<g, f, f>>), Join(<<g, f, f, f>>), Join(<<f, g, f, f>>),
            Join(<<f, f, g, f>>), Join(<<f, f, f, g>>), Join(<<f, f, g, f, f>>) } :
          <<g, f>> \in Groups \X Fillers }

\* the yargs handler has stored one of the strings as argv.ip
IpCheckInit ==
  /\ listeners = {}
  /\ ip \in IpCheckInputs
  /\ portrange = <<"1", "-", "1">>
  /\ pc = "main"
  /\ host = <<>>
  /\ err = "none"
  /\ startPort = 0
  /\ endPort = 0
  /\ port = 0
  /\ openPorts = <<>>
  /\ progressBar = [curr |-> 0, total |-> 0]
  /\ probe = <<>>
  /\ probes = <<>>
  /\ ticks = <<>>
  /\ dnsLookups = 0
  /\ stdout = <<>>
  /\ stderr = <<>>
  /\ exitCode = Null
  /\ exitCalls = 0

\* main applies isIpCheck to the argument and branches on the result
IpCheckNext == MainStart

IpCheckSpec == IpCheckInit /\ [][IpCheckNext]_vars

\* s is a non-empty string of decimal digits
DecimalGroup(g) == Len(g) >= 1 /\ AllDigits(g)

\* main found isIpCheck(ip) true: it went on to the assertions without a lookup
IpAccepted == pc = "validate"

IpRejected == pc = "dns"

\* C14 as stated: isIpCheck is true for every string of exactly four
\* dot-separated decimal groups each denoting a value in [0, 255], and false
\* for every string with a group above 255 or with fewer or more than four
\* groups.
C14_IpCheckByValue ==
  pc # "main" =>
    LET gs == Split(ip, ".")
    IN /\ (Len(gs) = 4 /\ \A i \in 1..4 : DecimalGroup(gs[i]) /\ ToNumber(gs[i]) <= 255)
            => IpAccepted
       /\ (Len(gs) # 4 \/ \E i \in 1..Len(gs) : DecimalGroup(gs[i]) /\ ToNumber(gs[i]) > 255)
            => IpRejected

\* C14 amended: isIpCheck is true for every string of exactly four
\* dot-separated groups of one to three decimal digits each denoting a value
\* in [0, 255], and false for every string with a group above 255, with a
\* group of more than three digits, or with fewer or more than four groups.
C14_IpCheckThreeDigits ==
  pc # "main" =>
    LET gs == Split(ip, ".")
    IN /\ (Len(gs) = 4 /\ \A i \in 1..4 :
              DecimalGroup(gs[i]) /\ Len(gs[i]) <= 3 /\ ToNumber(gs[i]) <= 255)
            => IpAccepted
       /\ (Len(gs) # 4 \/ \E i \in 1..Len(gs) :
              DecimalGroup(gs[i]) /\ (ToNumber(gs[i]) > 255 \/ Len(gs[i]) > 3))
            => IpRejected

C14_Witness ==
  /\ IpAccepted
  /\ \E i \in 1..Len(Split(ip, ".")) :
       Split(ip, ".")[i] = <<"0", "0", "7">>

\* scanPorts was called with a Target: a valid host and 0 <= start <= end <= 65535
ValidTarget ==
  /\ isIpCheck(host)
  /\ 0 <= startPort
  /\ startPort <= endPort
  /\ endPort <= MAX_PORT

\* number of final reports written
ReportCount == Cardinality({i \in 1..Len(stdout) : stdout[i].kind = "report"})

\* C15: under fairness of socket events every run of main with valid input
\* eventually emits the final list and count, exactly once, after the last
\* probe of the range has settled and before the process exits.
C15_ReportEventually ==
  /\ (pc = "scanPorts" /\ ValidTarget) ~> ReportEmitted
  /\ [](ReportCount <= 1)
  /\ []((ReportEmitted /\ ValidTarget) =>
          /\ Len(probes) = endPort - startPort + 1
          /\ \A q \in startPort..endPort : q \in DOMAIN probe /\ probe[q].state = "fulfilled")
  /\ []((pc = "exited" /\ ValidTarget /\ Len(stdout) > 0) => ReportEmitted)
  /\ []((pc = "resolved") => (ReportEmitted /\ exitCalls = 0))

C15_Witness ==
  /\ pc = "exited"
  /\ ReportEmitted
  /\ ValidTarget
  /\ Len(probes) >= 2
  /\ ~isIpCheck(ip)

\* the port currently or most recently probed
LastProbed == probes[Len(probes)]

\* the list in every state: strictly ascending, within [startPort, LastProbed]
OpenPortsShape ==
  /\ \A i \in 2..Len(openPorts) : openPorts[i] > openPorts[i - 1]
  /\ Len(probes) = 0 => openPorts = <<>>
  /\ \A i \in 1..Len(openPorts) : openPorts[i] \in startPort..LastProbed

\* the list in every step: appended to after an Open probe, else unchanged
OpenPortsStep ==
  /\ openPorts' # openPorts =>
       /\ pc = "resume"
       /\ openPorts' = Append(openPorts, port)
       /\ port = LastProbed
       /\ FirstEvent(port) = "connect"
  /\ (ReportEmitted \/ (pc = "loop" /\ port > endPort)) => openPorts' = openPorts

\* C16: the accumulating list is always strictly ascending and holds only
\* ports of [startPort, p], p the port currently or most recently probed; it
\* changes only by appending the port whose probe just returned Open, and is
\* not modified once the loop has ended.
C16_OpenPortsGrowth == []OpenPortsShape /\ [][OpenPortsStep]_vars

C16_Witness ==
  /\ ReportEmitted
  /\ Len(openPorts) >= 2
  /\ Len(openPorts) < Len(probes)

\* in every step a settled promise keeps its state and its value
SettledStaysFixed ==
  \A q \in DOMAIN probe :
    probe[q].state # "pending" =>
      /\ probe'[q].state = probe[q].state
      /\ probe'[q].value = probe[q].value
      /\ probe'[q].settles = probe[q].settles

\* C17: the outcome of a scanPort call is fixed by the first socket event that
\* settles it: the promise is settled once, a later event on the same socket
\* changes neither its state nor its value, and scanPorts records the port
\* only according to that first event.
C17_FirstEventFixes ==
  /\ [](\A q \in DOMAIN probe :
          /\ probe[q].settles <= 1
          /\ probe[q].settles = 1 <=> probe[q].state # "pending"
          /\ (\E i \in 1..Len(openPorts) : openPorts[i] = q) => FirstEvent(q) = "connect")
  /\ [][SettledStaysFixed]_vars

C17_Witness ==
  \E q \in DOMAIN probe :
    /\ probe[q].events = <<"error", "timeout">>
    /\ q < port
    /\ probe[q].settles = 1
    /\ probe[q].value = Null

\* the portrange argument is <digits>-<digits> with start above end
ReversedRange ==
  /\ isPortRangeCheck(portrange)
  /\ ParsePorts(portrange)[1] > ParsePorts(portrange)[2]

\* C18: a portrange whose start exceeds its end passes isPortRangeCheck and is
\* not rejected: with a valid host main calls scanPorts, which issues no
\* probe and reports an empty list with count 0, and the process exits with
\* code 0.
C18_ReversedRangeAccepted ==
  (ReversedRange /\ isIpCheck(host) /\ pc \notin {"main", "dns", "validate"}) =>
    /\ err = "none"
    /\ startPort = ParsePorts(portrange)[1]
    /\ endPort = ParsePorts(portrange)[2]
    /\ probes = <<>>
    /\ ticks = <<>>
    /\ pc \in {"scanPorts", "loop", "resolved", "exited"}
    /\ pc \in {"resolved", "exited"} =>
         (ReportEmitted /\ Report.list = <<>> /\ Report.count = 0)
    /\ pc = "exited" => exitCode = 0

C18_Witness ==
  /\ portrange = <<"5", "-", "1">>
  /\ pc = "exited"
  /\ exitCode = 0
  /\ ReportEmitted
  /\ probes = <<>>

====
